---- MODULE Spec2Model ----
(***************************************************************************)
(* init-token: run-once initialised statics guarded by access tokens.      *)
(*                                                                         *)
(* The model follows init_big::Static (src/src/init_big.rs), the token!    *)
(* macro (src/src/token.rs), SyncUnsafeCell (src/src/sync_unsafe_cell.rs)  *)
(* and the init_big! macro (src/src/lib.rs).  Two statics, A and B, are    *)
(* declared with init_big!; each brings its own token type.  Threads call  *)
(* init() on them and read the value through the tokens they were given.   *)
(*                                                                         *)
(* std::sync::Once is modelled by its documented behaviour: call_once      *)
(* returns at once when COMPLETE, panics when POISONED, runs the closure   *)
(* after winning INCOMPLETE -> RUNNING, and waits while RUNNING.  A        *)
(* recursive call_once from inside the closure either deadlocks or panics  *)
(* (both outcomes are allowed by the documentation of call_once).          *)
(***************************************************************************)
EXTENDS Naturals, Sequences, FiniteSets, TLC

\* ------------------------------------------------------------------ bounds
\* Threads, and init() calls made in one execution (by all threads together).
NumThreads == 2
MaxCalls == 3

Threads == 1..NumThreads

\* ------------------------------------------------------- the declarations
\* Two uses of init_big!: `static A` with `token TokenA`, `static B` with
\* `token TokenB`.
Statics == {"A", "B"}

\* The fields of the stored value type ($type).
Fields == {"x", "y"}

\* $const_init: the constant placeholder the cell is created with.
const_value == [f \in Fields |-> 0]

\* Static<$type, $token_name>: the token type a static's init() returns.
token_name(g) == IF g = "A" THEN "TokenA" ELSE "TokenB"

\* token! { token $token_name by $static_mod($static_name : ...) }: the static
\* a token type's static_ref reads.
static_name_wrong(ty) == "A"
static_name(ty) == IF ty = "TokenA" THEN "A" ELSE "B"

\* Token::new(): the zero-sized marker.
Token_new == [_private |-> << >>]

\* TokenWrapper::new() of $token_name: a value of the token type ty.
TokenWrapper_new(ty) == [type |-> ty, _token |-> Token_new]

\* derive(PartialEq) on $token_name: field-wise equality.
TokenEq(a, b) == a._token = b._token

\* The initializer bodies ($runtime_init): a sequence of in-place mutations of
\* fields of the value, then a normal return, a panic, or a recursive init()
\* of the same static.
Ends == {"return", "panic", "init"}
Bodies == {<< >>, <<"x">>, <<"x", "y">>}
Initializers == {[writes |-> w, end |-> e] : w \in Bodies, e \in Ends}

\* One mutation of the block: `my_static.f += 1`.
Mutate(v, f) == [v EXCEPT ![f] = @ + 1]

\* The value the whole mutation block leaves, starting from v.
RECURSIVE ApplyWrites(_, _)
ApplyWrites(v, w) == IF w = << >> THEN v ELSE ApplyWrites(Mutate(v, Head(w)), Tail(w))

\* What a racing read (a shared reference used while the initializer holds
\* its mutable reference) may return: undefined behaviour, any value.
AnyValue == [Fields -> 0..2]

Outcomes == {"Token", "InitializationFailure", "InitializationPoisoned"}

VARIABLES
  once,         \* once[g]: state of g.init_once
  value,        \* value[g]: contents of g.value
  initializer,  \* initializer[g]: g.initializer, fixed by Static::new
  pc,           \* pc[t]: where thread t is inside init()
  cur,          \* cur[t]: the static of thread t's current init() call
  ip,           \* ip[t]: next mutation of the initializer thread t is running
  blocked,      \* blocked[t]: the current call of t has waited
  calls,        \* calls[t]: the outcomes of t's completed init() calls
  started,      \* started[g]: times the initializer body of g was entered
  finished,     \* finished[g]: times it returned normally
  runner,       \* runner[g]: threads that have run g's initializer
  readlog       \* what reads through tokens observed

vars == <<once, value, initializer, pc, cur, ip, blocked, calls, started, finished, runner, readlog>>

\* ------------------------------------------------------------------- Once
\* self.init_once.call_once(..): what the call does in each state of the Once.
call_once_no_wait(s) ==
  CASE s = "COMPLETE" -> "return"
    [] s = "POISONED" -> "panic"
    [] s = "INCOMPLETE" -> "run"
    [] s = "RUNNING" -> "return"
call_once_rerun(s) ==
  CASE s = "COMPLETE" -> "run"
    [] s = "POISONED" -> "panic"
    [] s = "INCOMPLETE" -> "run"
    [] s = "RUNNING" -> "wait"
call_once_force(s) ==
  CASE s = "COMPLETE" -> "return"
    [] s = "POISONED" -> "run"
    [] s = "INCOMPLETE" -> "run"
    [] s = "RUNNING" -> "wait"
call_once_no_claim(s) ==
  CASE s = "COMPLETE" -> "return"
    [] s = "POISONED" -> "panic"
    [] s = "INCOMPLETE" -> "run"
    [] s = "RUNNING" -> "run"
call_once_ignore_poison(s) ==
  CASE s = "COMPLETE" -> "return"
    [] s = "POISONED" -> "return"
    [] s = "INCOMPLETE" -> "run"
    [] s = "RUNNING" -> "wait"
call_once(s) ==
  CASE s = "COMPLETE" -> "return"
    [] s = "POISONED" -> "panic"
    [] s = "INCOMPLETE" -> "run"
    [] s = "RUNNING" -> "wait"

\* The state call_once leaves when the closure ends: COMPLETE when it
\* returned, POISONED when it unwound.
once_after_swallow(end) == "COMPLETE"
once_after_retry(end) == IF end = "return" THEN "COMPLETE" ELSE "INCOMPLETE"
once_after(end) == IF end = "return" THEN "COMPLETE" ELSE "POISONED"

\* A waiter of call_once is woken when the Once has left RUNNING.
woken_on_complete(s) == s = "COMPLETE"
woken(s) == s # "RUNNING"

\* ---------------------------------------------------------- SyncUnsafeCell
\* The closure of init_big! holds `&mut *value` (get_mut) from its first line
\* to its end, the recursive init() included.
MutBorrowed(g) == \E t \in Threads : pc[t] \in {"running", "recursive"} /\ cur[t] = g

\* SyncUnsafeCell::get through Static::get_value: the values the shared
\* reference may show.  With a mutable reference alive the read is a data
\* race (undefined behaviour): any value.
get_value_locked(g) ==
  IF \E t \in Threads : pc[t] \in {"running", "recursive", "waiting"} THEN {} ELSE {value[g]}
get_value(g) == IF MutBorrowed(g) THEN AnyValue ELSE {value[g]}

\* $token_name::static_ref(token) / Deref: the static the token type is bound to.
static_ref(tok) == static_name(tok.type)

\* Deref for $token_name: deref(&self) is Self::static_ref(*self).
deref_other(tok) == CHOOSE g \in Statics : g # static_ref(tok)
deref(tok) == static_ref(tok)

\* ------------------------------------------------------------------ state
\* The tokens init() has returned so far, each with the static that issued it.
Issued ==
  UNION {UNION {{[tok |-> k, by |-> calls[t][i].static] : k \in calls[t][i].tok} :
                  i \in 1..Len(calls[t])} : t \in Threads}

\* The init() calls made so far: the completed ones and those under way.
RECURSIVE Completed(_)
Completed(T) ==
  IF T = {} THEN 0
  ELSE LET t == CHOOSE u \in T : TRUE IN Len(calls[t]) + Completed(T \ {t})
CallsMade == Completed(Threads) + Cardinality({t \in Threads : pc[t] # "idle"})

\* Static::new(const_value, initializer) for A and B.
Init ==
  /\ once = [g \in Statics |-> "INCOMPLETE"]
  /\ value = [g \in Statics |-> const_value]
  /\ initializer \in [Statics -> Initializers]
  /\ pc = [t \in Threads |-> "idle"]
  /\ cur = [t \in Threads |-> "A"]
  /\ ip = [t \in Threads |-> 0]
  /\ blocked = [t \in Threads |-> FALSE]
  /\ calls = [t \in Threads |-> << >>]
  /\ started = [g \in Statics |-> 0]
  /\ finished = [g \in Statics |-> 0]
  /\ runner = [g \in Statics |-> {}]
  /\ readlog = {}

\* The current init() call of t ends with outcome res (toks: the token returned).
Finish(t, res, toks) ==
  /\ calls' = [calls EXCEPT ![t] =
                 Append(@, [static |-> cur[t], res |-> res, blocked |-> blocked[t], tok |-> toks])]
  /\ pc' = [pc EXCEPT ![t] = "idle"]
  /\ ip' = [ip EXCEPT ![t] = 0]
  /\ blocked' = [blocked EXCEPT ![t] = FALSE]

\* The closure unwinds: call_once's guard leaves the Once poisoned (and wakes
\* the waiters) while the panic travels on to the caller of init().
Unwind_shared_once(t) ==
  /\ once' = [g \in Statics |-> once_after("panic")]
  /\ pc' = [pc EXCEPT ![t] = "unwinding"]
  /\ ip' = [ip EXCEPT ![t] = 0]
  /\ UNCHANGED <<value, initializer, cur, blocked, calls, started, finished, runner, readlog>>
Unwind(t) ==
  /\ once' = [once EXCEPT ![cur[t]] = once_after("panic")]
  /\ pc' = [pc EXCEPT ![t] = "unwinding"]
  /\ ip' = [ip EXCEPT ![t] = 0]
  /\ UNCHANGED <<value, initializer, cur, blocked, calls, started, finished, runner, readlog>>

\* ---------------------------------------------------------------- actions
\* call_once loads the state of g's Once and acts on it: the fast path when
\* COMPLETE, the panic when POISONED, the claim INCOMPLETE -> RUNNING, or
\* the wait while RUNNING.
Dispatch(t, g) ==
  /\ LET a == call_once(once[g])
     IN CASE a = "return" ->
               /\ pc' = [pc EXCEPT ![t] = "token_new"]
               /\ UNCHANGED <<once, ip, blocked, calls, started, runner>>
          [] a = "panic" ->
               /\ calls' = [calls EXCEPT ![t] =
                    Append(@, [static |-> g, res |-> "InitializationPoisoned",
                               blocked |-> blocked[t], tok |-> {}])]
               /\ pc' = [pc EXCEPT ![t] = "idle"]
               /\ blocked' = [blocked EXCEPT ![t] = FALSE]
               /\ UNCHANGED <<once, ip, started, runner>>
          [] a = "wait" ->
               /\ pc' = [pc EXCEPT ![t] = "waiting"]
               /\ blocked' = [blocked EXCEPT ![t] = TRUE]
               /\ UNCHANGED <<once, ip, calls, started, runner>>
          [] a = "run" ->
               /\ once' = [once EXCEPT ![g] = "RUNNING"]
               /\ pc' = [pc EXCEPT ![t] = "running"]
               /\ ip' = [ip EXCEPT ![t] = 1]
               /\ started' = [started EXCEPT ![g] = @ + 1]
               /\ runner' = [runner EXCEPT ![g] = @ \cup {t}]
               /\ UNCHANGED <<blocked, calls>>
  /\ cur' = [cur EXCEPT ![t] = g]
  /\ UNCHANGED <<value, initializer, finished, readlog>>

\* Thread t has called init() at least once.
HasCalled(t) == pc[t] # "idle" \/ calls[t] # << >>

\* A thread calls g.init(); the call starts with call_once.  The threads are
\* numbered in the order of their first call.
Call(t, g) ==
  /\ pc[t] = "idle"
  /\ CallsMade < MaxCalls
  /\ \A u \in Threads : u < t => HasCalled(u)
  /\ Dispatch(t, g)

\* A waiting thread is woken and call_once loads the state again.
Wake(t) ==
  /\ pc[t] = "waiting"
  /\ woken(once[cur[t]])
  /\ Dispatch(t, cur[t])

\* The initializer performs its next mutation through the mutable reference.
InitWrite_on_copy(t) ==
  /\ pc[t] = "running"
  /\ ip[t] <= Len(initializer[cur[t]].writes)
  /\ ip' = [ip EXCEPT ![t] = @ + 1]
  /\ UNCHANGED <<once, value, initializer, pc, cur, blocked, calls, started, finished, runner, readlog>>
InitWrite(t) ==
  /\ pc[t] = "running"
  /\ ip[t] <= Len(initializer[cur[t]].writes)
  /\ value' = [value EXCEPT ![cur[t]] = Mutate(@, initializer[cur[t]].writes[ip[t]])]
  /\ ip' = [ip EXCEPT ![t] = @ + 1]
  /\ UNCHANGED <<once, initializer, pc, cur, blocked, calls, started, finished, runner, readlog>>

\* The initializer returns: the Once completes and call_once returns.
InitReturn(t) ==
  /\ pc[t] = "running"
  /\ ip[t] > Len(initializer[cur[t]].writes)
  /\ initializer[cur[t]].end = "return"
  /\ once' = [once EXCEPT ![cur[t]] = once_after("return")]
  /\ finished' = [finished EXCEPT ![cur[t]] = @ + 1]
  /\ pc' = [pc EXCEPT ![t] = "token_new"]
  /\ ip' = [ip EXCEPT ![t] = 0]
  /\ UNCHANGED <<value, initializer, cur, blocked, calls, started, runner, readlog>>

\* The initializer panics.
InitPanic(t) ==
  /\ pc[t] = "running"
  /\ ip[t] > Len(initializer[cur[t]].writes)
  /\ initializer[cur[t]].end = "panic"
  /\ Unwind(t)

\* The initializer calls init() on its own static: the nested call_once finds
\* the Once RUNNING and either waits for itself forever or panics.
InitRecursive(t) ==
  /\ pc[t] = "running"
  /\ ip[t] > Len(initializer[cur[t]].writes)
  /\ initializer[cur[t]].end = "init"
  /\ \/ /\ pc' = [pc EXCEPT ![t] = "recursive"]
        /\ UNCHANGED <<once, value, initializer, cur, ip, blocked, calls, started, finished, runner, readlog>>
     \/ Unwind(t)

\* The initializer's panic leaves init(): the caller sees the original failure.
Propagate(t) ==
  /\ pc[t] = "unwinding"
  /\ Finish(t, "InitializationFailure", {})
  /\ UNCHANGED <<once, value, initializer, cur, started, finished, runner, readlog>>

\* unsafe { Token::new() }: init() returns the token.
TokenNew(t) ==
  /\ pc[t] = "token_new"
  /\ Finish(t, "Token", {TokenWrapper_new(token_name(cur[t]))})
  /\ UNCHANGED <<once, value, initializer, cur, started, finished, runner, readlog>>

\* A thread that is not inside init() reads the value through a token some
\* init() call returned (tokens are Copy and may be handed to any thread),
\* with static_ref or by dereferencing the token.
Read(h) ==
  /\ \E t \in Threads : pc[t] = "idle"
  /\ \E g \in {static_ref(h.tok), deref(h.tok)} :
       \E v \in get_value(g) :
         readlog' = readlog \cup
           {[by |-> h.by, cell |-> g, val |-> v, gate |-> once[g], race |-> MutBorrowed(g)]}
  /\ UNCHANGED <<once, value, initializer, pc, cur, ip, blocked, calls, started, finished, runner>>

Next ==
  \/ \E t \in Threads, g \in Statics : Call(t, g)
  \/ \E t \in Threads : Wake(t)
  \/ \E t \in Threads : InitWrite(t)
  \/ \E t \in Threads : InitReturn(t)
  \/ \E t \in Threads : InitPanic(t)
  \/ \E t \in Threads : InitRecursive(t)
  \/ \E t \in Threads : Propagate(t)
  \/ \E t \in Threads : TokenNew(t)
  \/ \E h \in Issued : Read(h)

Spec == Init /\ [][Next]_vars

\* Threads inside init() keep being scheduled; nothing obliges a thread to
\* call init() or to read.
Progress(t) ==
  Wake(t) \/ InitWrite(t) \/ InitReturn(t) \/ InitPanic(t)
    \/ InitRecursive(t) \/ Propagate(t) \/ TokenNew(t)

FairSpec == Spec /\ \A t \in Threads : WF_vars(Progress(t))

\* ----------------------------------------------------------------- claims
\* The completed init() calls on g, each as <<thread, index>>.
CallsOn(g) ==
  {c \in Threads \X (1..MaxCalls) : c[2] <= Len(calls[c[1]]) /\ calls[c[1]][c[2]].static = g}
Call_(c) == calls[c[1]][c[2]]
TokenCalls(g) == {c \in CallsOn(g) : Call_(c).res = "Token"}
FailureCalls(g) == {c \in CallsOn(g) : Call_(c).res = "InitializationFailure"}
PoisonedCalls(g) == {c \in CallsOn(g) : Call_(c).res = "InitializationPoisoned"}

\* The value the initializer of g leaves when it runs once on the placeholder.
FinalValue(g) == ApplyWrites(const_value, initializer[g].writes)

\* g's initializer is stuck in its own recursive init(): it never terminates.
Deadlocked(g) == \E u \in Threads : pc[u] = "recursive" /\ cur[u] = g

\* The call that thread t has just completed in this step, if any.
Completes(t) == Len(calls'[t]) = Len(calls[t]) + 1
NewCall(t) == calls'[t][Len(calls'[t])]

\* C1: whatever the number of concurrent and later init() calls, the
\* initializer body of a static is entered at most once, and once it has
\* returned normally it has run exactly once (the counter of its runs is 1).
C1_InitializerRunsOnce ==
  \A g \in Statics :
    /\ started[g] <= 1
    /\ finished[g] <= started[g]
    /\ Cardinality(runner[g]) <= 1
    /\ (once[g] = "COMPLETE" \/ TokenCalls(g) # {}) => (started[g] = 1 /\ finished[g] = 1)

\* Three init() calls on one static have returned, one of them after waiting
\* for a concurrent one, and the initializer has run once.
C1_Witness ==
  \E g \in Statics :
    /\ Cardinality(TokenCalls(g)) = 3
    /\ \E c \in TokenCalls(g) : Call_(c).blocked
    /\ started[g] = 1

\* C2: a token for g is held only when g's gate is Initialized and g's
\* initializer has returned normally, leaving the complete value; init() is
\* about to return a token only when the gate is Initialized; and every
\* completed call gave either a token or an error without a token.
C2_TokenImpliesInitialized ==
  /\ \A g \in Statics : \A c \in CallsOn(g) :
       /\ Call_(c).res \in Outcomes
       /\ Call_(c).res = "Token" <=> Call_(c).tok # {}
       /\ Call_(c).res = "Token" =>
            /\ once[g] = "COMPLETE"
            /\ finished[g] = 1
            /\ value[g] = FinalValue(g)
  /\ \A t \in Threads : pc[t] = "token_new" => once[cur[t]] = "COMPLETE"

\* A thread holds a token of one static, got after waiting, while the other
\* static is poisoned and a call on it has failed.
C2_Witness ==
  \E g \in Statics, k \in Statics :
    /\ g # k
    /\ \E c \in TokenCalls(g) : Call_(c).blocked
    /\ once[k] = "POISONED"
    /\ FailureCalls(k) # {}

\* C3: no read through a token overlaps or precedes a write of the
\* initializer: while the initializer holds its mutable reference no token of
\* that static exists, and every read through a token was made with the gate
\* Initialized, raced with nothing and returned the complete final value.
C3_ReadsSeeFinalValue ==
  /\ \A h \in Issued : ~MutBorrowed(static_ref(h.tok))
  /\ \A r \in readlog :
       /\ r.gate = "COMPLETE"
       /\ ~r.race
       /\ r.val = FinalValue(r.cell)

\* A read through a token returned a value both of whose fields the
\* initializer had mutated.
C3_Witness ==
  \E r \in readlog : r.val.x = 1 /\ r.val.y = 1 /\ initializer[r.cell].writes = <<"x", "y">>

\* C4: once the initializer of g has failed the gate is Poisoned for ever:
\* no step leaves Poisoned, runs the initializer again or writes the value,
\* and every init() call on g that ends afterwards, other than the failed
\* run's own, ends with the poisoning error and without a token.
C4_PoisonedForever ==
  /\ [](\A g \in Statics : FailureCalls(g) # {} => once[g] = "POISONED")
  /\ [][\A g \in Statics : once[g] = "POISONED" =>
          /\ once'[g] = "POISONED"
          /\ started'[g] = started[g]
          /\ value'[g] = value[g]
          /\ \A t \in Threads :
               (Completes(t) /\ NewCall(t).static = g /\ pc[t] # "unwinding") =>
                 (NewCall(t).res = "InitializationPoisoned" /\ NewCall(t).tok = {})
          /\ \A t \in Threads : (pc'[t] = "token_new" /\ cur'[t] = g) => pc[t] = "token_new"]_vars

\* After a failed initializer, a call that had been waiting and a call made
\* later have both ended with the poisoning error.
C4_Witness ==
  \E g \in Statics :
    /\ FailureCalls(g) # {}
    /\ \E c \in PoisonedCalls(g) : Call_(c).blocked
    /\ \E c \in PoisonedCalls(g) : ~Call_(c).blocked

\* C5: when the initializer of g fails, exactly one init() call observes the
\* original failure: the one of the thread that ran the initializer (while
\* its panic is still travelling, none yet); every other failed call,
\* those that waited included, observes the poisoning error.
C5_OneOriginalFailure ==
  \A g \in Statics :
    LET unwinding == {t \in Threads : pc[t] = "unwinding" /\ cur[t] = g}
    IN /\ Cardinality(FailureCalls(g)) + Cardinality(unwinding) =
            (IF once[g] = "POISONED" THEN 1 ELSE 0)
       /\ \A c \in FailureCalls(g) : c[1] \in runner[g] /\ ~Call_(c).blocked
       /\ \A c \in CallsOn(g) : Call_(c).blocked => Call_(c).res # "InitializationFailure"
       /\ PoisonedCalls(g) # {} => once[g] = "POISONED"

\* The running call has seen the original failure and two other calls, one
\* of which had waited, have seen the poisoning error.
C5_Witness ==
  \E g \in Statics :
    /\ Cardinality(FailureCalls(g)) = 1
    /\ Cardinality(PoisonedCalls(g)) = 2
    /\ \E c \in PoisonedCalls(g) : Call_(c).blocked

FailedCalls(g) == FailureCalls(g) \cup PoisonedCalls(g)

\* Any two tokens the calls on g returned are of one type and compare equal.
TokensEquivalent(g) ==
  \A c \in TokenCalls(g), d \in TokenCalls(g) :
    \A a \in Call_(c).tok, b \in Call_(d).tok : a.type = b.type /\ TokenEq(a, b)

\* Thread t enters init() in this step (the call may also end in it).
Enters(t) == pc[t] = "idle" /\ (pc'[t] # "idle" \/ Completes(t))

\* C7, as stated: init() is idempotent, repeated calls on a static return an
\* equivalent token or the same failure.
C7_Original ==
  \A g \in Statics :
    /\ TokensEquivalent(g)
    /\ \A c \in FailedCalls(g), d \in FailedCalls(g) : Call_(c).res = Call_(d).res

\* C7, amended: a call made when the gate is Initialized goes straight to
\* returning its token, without waiting, without running the initializer and
\* leaving gate and value as they were; all tokens of a static are equal;
\* and repeated calls on a static either all return tokens or all fail, the
\* call that ran the failing initializer with the original failure and every
\* other one with the same poisoning error.
C7_Idempotent ==
  /\ [](\A g \in Statics :
          /\ TokensEquivalent(g)
          /\ ~(TokenCalls(g) # {} /\ FailedCalls(g) # {})
          /\ Cardinality(FailureCalls(g)) <= 1
          /\ \A c \in FailedCalls(g) \ FailureCalls(g) :
               Call_(c).res = "InitializationPoisoned")
  /\ [][\A t \in Threads :
          (Enters(t) /\ once[cur'[t]] = "COMPLETE") =>
            /\ pc'[t] = "token_new"
            /\ ~blocked'[t]
            /\ once' = once /\ value' = value
            /\ started' = started /\ finished' = finished]_vars

\* One thread has called init() twice on a static and got a token both
\* times, the second time without waiting.
C7_Witness ==
  \E g \in Statics : \E c \in TokenCalls(g), d \in TokenCalls(g) :
    c[1] = d[1] /\ c[2] < d[2] /\ ~Call_(d).blocked

\* C8: a token issued by g.init() only ever reads g's cell: static_ref of an
\* issued token names the static that issued it, and so does every read made.
C8_TokenReadsOwnCell ==
  /\ \A h \in Issued : static_ref(h.tok) = h.by
  /\ \A r \in readlog : r.cell = r.by

\* A read was made through a token of one static while the other static is
\* not initialized (its initializer is running, or it is poisoned).
C8_Witness ==
  \E r \in readlog : \E k \in Statics \ {r.by} :
    once[k] \in {"RUNNING", "POISONED"} /\ value[k] # const_value

\* C9: all the reads made through tokens of one static, whenever made and
\* by whichever thread, returned the same value.
C9_ReadsAgree ==
  \A g \in Statics : Cardinality({r.val : r \in {q \in readlog : q.by = g}}) <= 1

\* A value was read through a token of a static on which three init() calls
\* have returned tokens.
C9_Witness ==
  \E r \in readlog : Cardinality(TokenCalls(r.by)) = 3 /\ r.val # const_value

\* A completed call that had waited saw the terminal state of the gate.
WaitedCallsSawGate ==
  \A g \in Statics : \A c \in CallsOn(g) :
    Call_(c).blocked =>
      \/ Call_(c).res = "Token" /\ once[g] = "COMPLETE"
      \/ Call_(c).res = "InitializationPoisoned" /\ once[g] = "POISONED"

\* Thread t has completed a call in which it had waited.
Released(t) == pc[t] = "idle" /\ calls[t] # << >> /\ calls[t][Len(calls[t])].blocked

\* C10: under fair scheduling, a thread waiting in init() is released and its
\* call ends with a token when the gate became Initialized, with the poisoning
\* error when it became Poisoned.  The one exception is an initializer that
\* never terminates (it is stuck in its own recursive init()), and then the
\* gate is still Initializing: no thread stays waiting on a terminal gate.
C10_WaitersReleased ==
  /\ [](WaitedCallsSawGate /\ \A g \in Statics : Deadlocked(g) => once[g] = "RUNNING")
  /\ \A t \in Threads :
       (pc[t] = "waiting") ~>
         (Released(t) \/ (Deadlocked(cur[t]) /\ once[cur[t]] = "RUNNING"))

\* A thread has been released from its wait and its call ended with the
\* poisoning error.
C10_Witness ==
  \E t \in Threads : Released(t) /\ calls[t][Len(calls[t])].res = "InitializationPoisoned"

\* C11: value access through a token never blocks.  Whatever the gates and the
\* other threads are doing, a thread that is not itself inside init() can
\* read through any token that exists, and the read, one step, leaves the
\* gates, the stored values and every thread's position in init() unchanged.
C11_ReadNeverBlocks ==
  /\ [](\A h \in Issued : (\E t \in Threads : pc[t] = "idle") => ENABLED Read(h))
  /\ [][readlog' # readlog =>
          (once' = once /\ value' = value /\ pc' = pc /\ blocked' = blocked /\ calls' = calls)]_vars

\* A value has been read through a token of one static, and can be read
\* again, while another thread is inside init() of the other static, stuck
\* in its initializer.
C11_Witness ==
  \E r \in readlog : \E h \in Issued :
    /\ h.by = r.by
    /\ ENABLED Read(h)
    /\ \E t \in Threads : pc[t] = "recursive" /\ cur[t] # r.by

\* C12: after a successful init() the value read through the token is the
\* result of the initializer (the placeholder with the whole mutation block
\* applied), whether read by dereferencing the token or with static_ref, and
\* further init() calls return tokens that read that same value while the
\* initializer has still run once only.
C12_TokenReadsInitializerResult ==
  \A g \in Statics :
    /\ \A h \in Issued : h.by = g =>
         /\ deref(h.tok) = static_ref(h.tok)
         /\ get_value(deref(h.tok)) = {FinalValue(g)}
         /\ get_value(static_ref(h.tok)) = {FinalValue(g)}
    /\ \A r \in readlog : r.by = g => r.val = FinalValue(g)
    /\ TokenCalls(g) # {} => (started[g] = 1 /\ finished[g] = 1)

\* One thread has had a token from init() twice on a static whose initializer
\* mutates both fields, and the mutated value has been read through a token.
C12_Witness ==
  \E g \in Statics :
    /\ \E c \in TokenCalls(g), d \in TokenCalls(g) : c[1] = d[1] /\ c[2] # d[2]
    /\ \E r \in readlog : r.by = g /\ r.val = [x |-> 1, y |-> 1]
    /\ started[g] = 1

\* C13: the gate of a static only ever moves Uninitialized -> Initializing
\* (a caller claims it and enters the initializer), Initializing ->
\* Initialized (the initializer returned) or Initializing -> Poisoned (the
\* initializer failed); Initialized and Poisoned are never left, and
\* Uninitialized is never re-entered nor left for a terminal state.
C13_GateTransitions ==
  [][\A g \in Statics :
       \/ once'[g] = once[g]
       \/ /\ once[g] = "INCOMPLETE" /\ once'[g] = "RUNNING"
          /\ started'[g] = started[g] + 1
       \/ /\ once[g] = "RUNNING" /\ once'[g] = "COMPLETE"
          /\ finished'[g] = finished[g] + 1
       \/ /\ once[g] = "RUNNING" /\ once'[g] = "POISONED"
          /\ \E t \in Threads : pc[t] = "running" /\ cur[t] = g /\ pc'[t] = "unwinding"]_vars

\* One gate has gone all the way to Initialized and the other all the way
\* to Poisoned, and calls have been made on both since.
C13_Witness ==
  \E g \in Statics, k \in Statics :
    /\ once[g] = "COMPLETE" /\ once[k] = "POISONED"
    /\ Cardinality(TokenCalls(g)) >= 1
    /\ PoisonedCalls(k) # {}

\* C14: every write to the cell of a static is made by the one thread that
\* won the claim of its gate, as a step of the initializer it is running, and
\* only while the gate is Initializing (before and after the step); the cell
\* is never written while the gate is Uninitialized, Initialized or Poisoned.
C14_OnlyWinnerWrites ==
  [][\A g \in Statics :
       value'[g] # value[g] =>
         /\ once[g] = "RUNNING" /\ once'[g] = "RUNNING"
         /\ \E t \in Threads :
              /\ runner[g] = {t}
              /\ pc[t] = "running" /\ cur[t] = g
              /\ ip'[t] = ip[t] + 1
              /\ \A u \in Threads \ {t} : ip'[u] = ip[u]]_vars

\* The winner has made the first of its two writes, the cell holds a partly
\* mutated value, and another thread waits on the gate.
C14_Witness ==
  \E g \in Statics, t \in Threads, u \in Threads :
    /\ pc[t] = "running" /\ cur[t] = g /\ ip[t] = 2
    /\ initializer[g].writes = <<"x", "y">>
    /\ value[g] = [x |-> 1, y |-> 0]
    /\ pc[u] = "waiting" /\ cur[u] = g

\* Thread t is blocked inside init(): it waits on a gate that is still
\* Initializing, either as a caller or in a call made by its own initializer.
BlockedInInit(t) ==
  \/ pc[t] = "waiting" /\ ~woken(once[cur[t]])
  \/ pc[t] = "recursive"

\* C15: an init() call blocks only when a different thread is executing the
\* initializer of that static; a thread is never blocked waiting on the
\* initialization it is itself running.
C15_BlocksOnlyOnOtherThread ==
  \A t \in Threads :
    BlockedInInit(t) =>
      \E u \in Threads \ {t} : pc[u] \in {"running", "recursive"} /\ cur[u] = cur[t]

\* The fields the mutation block w touches.
Touched(w) == {w[i] : i \in 1..Len(w)}

\* The first n mutations of the block w.
Prefix(w, n) == [i \in 1..n |-> w[i]]

\* C16: the cell of a static holds the constant placeholder until its
\* initializer runs; the initializer mutates the cell itself, so that while
\* it runs the cell holds the placeholder with the mutations made so far;
\* and once init() has succeeded the cell holds the placeholder with exactly
\* the block's mutations applied, every untouched field still as in the
\* placeholder.
C16_InPlaceInitialization ==
  \A g \in Statics :
    /\ once[g] = "INCOMPLETE" => value[g] = const_value
    /\ \A t \in Threads : (pc[t] = "running" /\ cur[t] = g) =>
         value[g] = ApplyWrites(const_value, Prefix(initializer[g].writes, ip[t] - 1))
    /\ (once[g] = "COMPLETE" \/ TokenCalls(g) # {}) =>
         /\ value[g] = ApplyWrites(const_value, initializer[g].writes)
         /\ \A f \in Fields \ Touched(initializer[g].writes) : value[g][f] = const_value[f]
         /\ \A f \in Touched(initializer[g].writes) : value[g][f] = const_value[f] + 1

\* init() has returned a token of a static whose initializer mutates the
\* single field x: the cell holds x mutated and y as in the placeholder.
C16_Witness ==
  \E g \in Statics :
    /\ TokenCalls(g) # {}
    /\ initializer[g].writes = <<"x">>
    /\ value[g] = [x |-> 1, y |-> 0]

\* The threads inside the initializer of g (running its block, or stuck in
\* the init() call its block made).
Inside(g) == {t \in Threads : pc[t] \in {"running", "recursive"} /\ cur[t] = g}

\* C17: at most one thread is inside the initializer of a static at any time,
\* and its gate is Initializing exactly while some thread is inside; an
\* init() call that arrives while the gate is Initializing waits (or ends)
\* and never enters the initializer, which is entered only from Uninitialized.
C17_OneThreadInside ==
  /\ [](\A g \in Statics :
          /\ Cardinality(Inside(g)) <= 1
          /\ once[g] = "RUNNING" <=> Inside(g) # {})
  /\ [][\A g \in Statics :
          /\ once[g] = "RUNNING" => (started'[g] = started[g] /\ Inside(g)' \subseteq Inside(g))
          /\ \A t \in Threads :
               (Enters(t) /\ cur'[t] = g /\ once[g] = "RUNNING") => pc'[t] = "waiting"
          /\ Inside(g)' \ Inside(g) # {} => once[g] = "INCOMPLETE"]_vars

\* One thread is inside the initializer, between its two mutations, and the
\* other thread's call, arrived meanwhile, waits.
C17_Witness ==
  \E g \in Statics, t \in Threads, u \in Threads :
    /\ Inside(g) = {t} /\ pc[t] = "running" /\ ip[t] = 2
    /\ pc[u] = "waiting" /\ cur[u] = g /\ blocked[u]
    /\ started[g] = 1

\* Thread t takes a step of an init() call in this step.
StepsInInit(t) == pc'[t] # pc[t] \/ ip'[t] # ip[t] \/ calls'[t] # calls[t]

\* C18: distinct statics are independent.  A step of an init() call on one
\* static leaves the gate, the value and the initializer's run counts of
\* every other static unchanged; what a call on a static does on arrival
\* depends on the gate of that static alone, whatever state the other is in
\* (Poisoned included); and each initializer runs at most once.
C18_StaticsIndependent ==
  /\ [](\A g \in Statics : started[g] <= 1)
  /\ [][\A t \in Threads : StepsInInit(t) =>
          /\ \A k \in Statics \ {cur'[t]} :
               /\ once'[k] = once[k] /\ value'[k] = value[k]
               /\ started'[k] = started[k] /\ finished'[k] = finished[k]
               /\ runner'[k] = runner[k]
          /\ Enters(t) =>
               LET g == cur'[t]
               IN /\ once[g] = "INCOMPLETE" => (pc'[t] = "running" /\ started'[g] = 1)
                  /\ once[g] = "RUNNING" => pc'[t] = "waiting"
                  /\ once[g] = "COMPLETE" => pc'[t] = "token_new"
                  /\ once[g] = "POISONED" =>
                       (Completes(t) /\ NewCall(t).static = g
                          /\ NewCall(t).res = "InitializationPoisoned")]_vars

\* A thread's init() on one static failed with the initializer's panic, and
\* the same thread then ran the initializer of the other static and got its
\* token: the second static was initialized while the first was Poisoned.
C18_Witness ==
  \E t \in Threads, g \in Statics, k \in Statics :
    /\ g # k /\ Len(calls[t]) >= 2
    /\ calls[t][1].static = g /\ calls[t][1].res = "InitializationFailure"
    /\ calls[t][2].static = k /\ calls[t][2].res = "Token"
    /\ runner[k] = {t}
    /\ once[g] = "POISONED" /\ once[k] = "COMPLETE"
    /\ value[k] = FinalValue(k) /\ value[k] # const_value

====
